---- MODULE Spec2Model ----
(***************************************************************************)
(* Model of the SuperBox MCP bridge.                                       *)
(*                                                                         *)
(*   src/aws/lambda.py  persistent (WebSocket) variant: handle_connect,    *)
(*                      handle_disconnect, handle_message and the module   *)
(*                      globals _mcp_process, _repo_dir,                   *)
(*                      _connection_params.                                *)
(*   src/lambda.py      single-shot (HTTP) variant: lambda_handler,        *)
(*                      run_server.                                        *)
(*                                                                         *)
(* One execution environment is modelled: the module globals live as long  *)
(* as the environment, and it handles one event at a time.  A handler is   *)
(* cut only where the code blocks on, or races with, the child process     *)
(* (a pipe write, a readline, communicate); the child and the timeout are  *)
(* the only things that act between two pieces of one handler.             *)
(***************************************************************************)
EXTENDS Integers, Sequences, FiniteSets, TLC

\* ------------------------------------------------------------- bounds
\* temp directories (mkdtemp) that one environment creates successfully
MaxStarts == 2
\* user messages relayed to one child process
MaxUser == 2
\* lines a child may have written that the bridge has not read yet
MaxOut == 1

\* ------------------------------------------------------------- values
ConnIds == {"A", "B"}
None == "None"
Absent == "absent"
EmptyObj == "{}"
EOF == << >>

GithubUrl == "https://github.com/o/r"
OtherUrl == "https://example.com/repo"

\* str.lower() on the strings the model uses
Lower(s) ==
  CASE s = "True" -> "true"
    [] s = "Python" -> "python"
    [] OTHER -> s

\* query string parameters: a key that is not given is Absent
AllQueryParams ==
  [name : {Absent, "srv"},
   test_mode : {Absent, "True"},
   repo_url : {Absent, GithubUrl, OtherUrl},
   entrypoint : {Absent, "missing.py"},
   lang : {Absent, "ruby"}]

\* the parameter sets that events carry: with or without a name; no override,
\* or test_mode with a repo_url, and then the language given or left to its
\* default.  The other ways a descriptor can be (another host, a missing
\* entrypoint) come from the stored descriptors, see Metas.
QueryParams ==
  {q \in AllQueryParams :
     /\ q.test_mode = Absent <=> q.repo_url = Absent
     /\ q.repo_url # OtherUrl
     /\ q.entrypoint = Absent
     /\ q.lang # Absent => q.test_mode # Absent}

\* those that leave the language to its default: an unsupported language
\* then comes from the stored descriptors
CoreQueries == {q \in QueryParams : q.lang = Absent}

\* the empty dict: _connection_params.get(connection_id, {})
EmptyParams ==
  [name |-> Absent, test_mode |-> Absent, repo_url |-> Absent,
   entrypoint |-> Absent, lang |-> Absent]

\* dict.get(key, default)
Get(d, k, default) == IF d[k] = Absent THEN default ELSE d[k]

\* ------------------------------------------------------------- messages
MsgKeys == {"_mcp_name", "method", "id", "params"}

ValuesOf(k) ==
  CASE k = "_mcp_name" -> {"alt", ""}
    [] k = "method" -> {"ping"}
    [] k = "id" -> {"1"}
    [] k = "params" -> {"given"}

AllValues == UNION {ValuesOf(k) : k \in MsgKeys}

\* the JSON objects a client may send: any subset of the four keys
JsonObjects ==
  UNION {{f \in [S -> AllValues] : \A k \in S : f[k] \in ValuesOf(k)} :
           S \in SUBSET MsgKeys}

NoObj == [k \in {} |-> ""]

\* an event body: a JSON object, a JSON number, or text that is not JSON
Bodies ==
  {[kind |-> "obj", obj |-> f] : f \in JsonObjects}
    \cup {[kind |-> "num", obj |-> NoObj], [kind |-> "text", obj |-> NoObj]}

NoBody == [kind |-> "none", obj |-> NoObj]

\* the bodies that differ in how a message is handled, not in how it is
\* rewritten or named: a request without params, and a JSON number
CoreBodies ==
  {b \in Bodies : b.kind = "num" \/ (b.kind = "obj" /\ DOMAIN b.obj = {"method", "id"})}

\* the bodies that differ in how lines 85-89 treat them: with and without
\* _mcp_name (empty or not); no key, method alone, method and id, and these
\* with params; a JSON number; text that is not JSON
RelayBodies ==
  {b \in Bodies :
     b.kind = "obj" =>
       /\ "id" \in DOMAIN b.obj => "method" \in DOMAIN b.obj
       /\ "params" \in DOMAIN b.obj => "id" \in DOMAIN b.obj}

InitLine == [kind |-> "initialize", obj |-> NoObj]
NotifLine == [kind |-> "notifications/initialized", obj |-> NoObj]

HasKey(m, k) == k \in DOMAIN m

\* dict.pop(key)
Pop(m, k) == [x \in DOMAIN m \ {k} |-> m[x]]

\* message_data["params"] = {}
WithEmptyParams(m) ==
  [x \in DOMAIN m \cup {"params"} |-> IF x = "params" THEN EmptyObj ELSE m[x]]

\* lines 85-86: the in-band name, None when the key is not there
InbandName(body) ==
  IF body.kind = "obj" /\ HasKey(body.obj, "_mcp_name")
    THEN body.obj["_mcp_name"]
    ELSE None

\* lines 84-93: what is written to the child for this body.  A body that is
\* not JSON is left as it is (JSONDecodeError is caught).
Rewrite(body) ==
  IF body.kind # "obj"
    THEN body
    ELSE LET m1 == IF HasKey(body.obj, "_mcp_name")
                     THEN Pop(body.obj, "_mcp_name")
                     ELSE body.obj
             m2 == IF HasKey(m1, "method") /\ ~HasKey(m1, "params") /\ HasKey(m1, "id")
                     THEN WithEmptyParams(m1)
                     ELSE m1
         IN [kind |-> "obj", obj |-> m2]

\* `"_mcp_name" in message_data` raises TypeError on a JSON number, and
\* TypeError is not among the exceptions the inner try catches
RewriteRaises(body) == body.kind = "num"

\* ------------------------------------------------------------- child output
\* a line is a sequence of bytes ending in a newline; b"" is end of file.
\* "0xff" is a byte that is not UTF-8
ChildLines == {<<" ", "x", "\n">>, <<"0xff", "\n">>}

\* bytes.decode("utf-8") raises UnicodeDecodeError on bytes that are not UTF-8
DecodeRaises(bytes) == \E i \in 1..Len(bytes) : bytes[i] = "0xff"

IsSpace(c) == c \in {" ", "\n"}

RECURSIVE LStrip(_)
LStrip(s) ==
  IF s = << >> THEN s
  ELSE IF IsSpace(Head(s)) THEN LStrip(Tail(s)) ELSE s

RECURSIVE RStrip(_)
RStrip(s) ==
  IF s = << >> THEN s
  ELSE IF IsSpace(s[Len(s)]) THEN RStrip(SubSeq(s, 1, Len(s) - 1)) ELSE s

\* bytes.decode("utf-8").strip()
Strip(s) == RStrip(LStrip(s))

\* ------------------------------------------------------------- state
VARIABLES
  mcp_process,        \* _mcp_process: 0 is None, else the child's number
  repo_dir,           \* _repo_dir: 0 is None, else the temp directory's number
  connection_params,  \* _connection_params: connection id -> query parameters
  procs,              \* every child process spawned so far
  dirs,               \* the mkdtemp directories that exist on disk
  wsinfo,             \* for each temp directory on disk: the name it was made for
  nextId,             \* the number the next temp directory gets
  pc,                 \* where the running handler is
  inv                 \* the invocation being handled, or the last one handled

vars ==
  <<mcp_process, repo_dir, connection_params, procs, dirs, wsinfo, nextId, pc, inv>>

Ids == 1..MaxStarts

\* a child process: st is "none" (not spawned), "running", "exited" (exit code
\* 0), "failed" (another exit code) or "killed";
\* io is what the bridge did on its pipes, in order; out is what the child wrote
\* and the bridge has not read; owner is the connection whose message spawned it;
\* cin and cout say that the child's ends of its stdin and stdout pipes are
\* closed.  A child closes them by itself or by exiting, and the bridge can run
\* between the two closings and before poll() reports the exit
NoProc ==
  [st |-> "none", io |-> << >>, out |-> << >>, owner |-> None,
   cin |-> FALSE, cout |-> FALSE]

\* the name in the directory's prefix, mcp_<name>_
NoWs == [name |-> None]

\* an invocation: body is the event's body and fwd the last line written to the
\* child's stdin, both kept while the invocation runs; status is 0 while it
\* runs, else the statusCode returned; etype is
\* type(e).__name__ of the exception caught; posts are the post_to_connection
\* calls made (single-shot: the response body returned); cold says a child was
\* spawned; pid is the child written to; ws the temp directory made; pip that
\* install_deps ran pip for a requirements.txt; hseof and
\* eof say that the handshake read and the relay read returned b""; killed and
\* rmdir are what a disconnect or a timeout killed and removed; named and
\* direct say what the query string of the event itself gave: a name (in the
\* path, for a call), and test_mode=true with a repo_url.  A $default event
\* has no query string
NoInv ==
  [op |-> "none", conn |-> None, body |-> NoBody, fwd |-> NoBody, status |-> 0,
   etype |-> None,
   ekind |-> None, posts |-> << >>, cold |-> FALSE, pid |-> 0, ws |-> 0,
   pip |-> FALSE, hseof |-> FALSE, eof |-> FALSE, killed |-> 0, rmdir |-> 0,
   named |-> FALSE, direct |-> FALSE]

Init ==
  /\ mcp_process = 0
  /\ repo_dir = 0
  /\ connection_params = [c \in {} |-> EmptyParams]
  /\ procs = [p \in Ids |-> NoProc]
  /\ dirs = {}
  /\ wsinfo = [d \in Ids |-> NoWs]
  /\ nextId = 1
  /\ pc = "idle"
  /\ inv = NoInv

\* ------------------------------------------------------------- helpers
\* _connection_params.get(connection_id, {})
ParamsOf(c) ==
  IF c \in DOMAIN connection_params THEN connection_params[c] ELSE EmptyParams

\* _connection_params[connection_id] = query_params
Put(d, c, qp) == [k \in DOMAIN d \cup {c} |-> IF k = c THEN qp ELSE d[k]]

\* Popen.poll(): None while the child runs
Poll(p) == IF procs[p].st = "running" THEN None ELSE "returncode"

\* kill() left out
KillForgotten(ps, p) == ps

\* a kill() that raises when the child is gone already
KillRaisesOnDead(p) == procs[p].st # "running"

\* Popen.kill() returns without an exception, whether the child runs or not
KillRaises(p) == FALSE

\* Popen.kill(): nothing happens to a child that is gone already
Kill(ps, p) ==
  IF ps[p].st = "running"
    THEN [ps EXCEPT ![p].st = "killed", ![p].cin = TRUE, ![p].cout = TRUE]
    ELSE ps

\* rmtree left out
RemoveTreeSkipped(ds, d) == ds

\* shutil.rmtree(temp_dir, ignore_errors=True)
RemoveTree(ds, d) == ds \ {d}

\* the test of line 95 left out: every message starts a server
NeedColdStartAlways == TRUE

\* line 95: not _mcp_process or _mcp_process.poll() is not None
NeedColdStart == mcp_process = 0 \/ Poll(mcp_process) # None

UserWrites(p) == Cardinality({i \in 1..Len(procs[p].io) : procs[p].io[i] = "w_user"})

\* stdin.write(line); stdin.flush(): the pipe is broken once the child's end of
\* it is closed, whatever poll() says
CanWrite(p) == ~procs[p].cin

Written(ps, p, op) == [ps EXCEPT ![p].io = Append(@, op)]

\* a Popen object that nothing refers to any more: its pipes are closed, and
\* the record of what went through them ends with it
Released(ps, p) == IF p = 0 THEN ps ELSE [ps EXCEPT ![p].out = << >>, ![p].io = << >>]

\* an invocation that has returned
Returned(rec, status) == [rec EXCEPT !.status = status, !.body = NoBody, !.fwd = NoBody]

\* stdout.readline() returns once a line is there or the child's end of the
\* pipe is closed, whether the child still runs or not
CanRead(p) == procs[p].out # << >> \/ procs[p].cout

ReadLine(p) == IF procs[p].out # << >> THEN Head(procs[p].out) ELSE EOF

AfterRead(ps, p) ==
  [ps EXCEPT ![p].io = Append(@, "r"),
             ![p].out = IF @ # << >> THEN Tail(@) ELSE @]

\* lines 165-187: the handler of every exception of handle_message sends the
\* error envelope (a failure of that send is swallowed) and returns 500
Raise(rec, etype, ekind) ==
  \E ok \in BOOLEAN :
    /\ inv' = [Returned(rec, 500) EXCEPT
                 !.etype = etype, !.ekind = ekind,
                 !.posts = Append(@, [kind |-> "error", data |-> <<etype>>, ok |-> ok])]
    /\ pc' = "idle"

\* ------------------------------------------------------------- connect
\* lines 106-109: is_test_mode and repo_url
DirectOverride(qp) ==
  Lower(Get(qp, "test_mode", "")) = "true" /\ qp.repo_url \notin {Absent, ""}

handle_connect(c, qp) ==
  /\ pc = "idle"
  /\ LET mcp_name == Get(qp, "name", "")
     IN IF mcp_name = ""
          THEN /\ inv' = [NoInv EXCEPT !.op = "connect", !.conn = c, !.status = 400,
                                       !.named = qp.name \notin {Absent, ""},
                                       !.direct = DirectOverride(qp)]
               /\ UNCHANGED connection_params
          ELSE /\ connection_params' = Put(connection_params, c, qp)
               /\ inv' = [NoInv EXCEPT !.op = "connect", !.conn = c, !.status = 200,
                                       !.named = qp.name \notin {Absent, ""},
                                       !.direct = DirectOverride(qp)]
  /\ UNCHANGED <<mcp_process, repo_dir, procs, dirs, wsinfo, nextId, pc>>

\* ------------------------------------------------------------- disconnect
handle_disconnect(c) ==
  /\ pc = "idle"
  /\ IF mcp_process # 0 /\ KillRaises(mcp_process)
       THEN \* nothing in handle_disconnect catches: the invocation fails
            /\ inv' = [NoInv EXCEPT !.op = "disconnect", !.conn = c, !.status = 500,
                                    !.etype = "ProcessLookupError"]
            /\ UNCHANGED <<mcp_process, repo_dir, procs, dirs, wsinfo>>
       ELSE /\ IF mcp_process # 0
                 THEN /\ procs' = Released(Kill(procs, mcp_process), mcp_process)
                      /\ mcp_process' = 0
                 ELSE UNCHANGED <<procs, mcp_process>>
            /\ IF repo_dir # 0 /\ repo_dir \in dirs
                 THEN /\ dirs' = RemoveTree(dirs, repo_dir)
                      /\ wsinfo' = [wsinfo EXCEPT ![repo_dir] = NoWs]
                      /\ repo_dir' = 0
                 ELSE UNCHANGED <<dirs, wsinfo, repo_dir>>
            /\ inv' = [NoInv EXCEPT !.op = "disconnect", !.conn = c, !.status = 200,
                                    !.killed = mcp_process,
                                    !.rmdir = IF repo_dir \in dirs THEN repo_dir ELSE 0]
  /\ UNCHANGED <<connection_params, nextId, pc>>

\* ------------------------------------------------------------- cold start
\* what the outside world answers during a cold start
AllMetas ==
  [url : {GithubUrl, OtherUrl},
   entrypoint : {"main.py", "missing.py"},
   lang : {"python", "Python", "ruby"}]

\* the stored descriptors: one for each way a cold start can go on from them
Metas ==
  {m \in AllMetas :
     /\ m.url = OtherUrl => m.entrypoint = "main.py" /\ m.lang = "python"
     /\ m.lang = "ruby" => m.entrypoint = "main.py"
     /\ m.entrypoint = "missing.py" => m.lang = "python"}

NoMeta == [url |-> None, entrypoint |-> None, lang |-> None]

\* fetch_meta: the stored descriptor, or NoSuchKey, or any other S3 failure
FetchOutcomes ==
  {[etype |-> None, ekind |-> None, meta |-> m] : m \in Metas}
    \cup {[etype |-> "FileNotFoundError", ekind |-> "NotFound", meta |-> NoMeta],
          [etype |-> "Exception", ekind |-> "StoreError", meta |-> NoMeta]}

NoFetch == [etype |-> None, ekind |-> None, meta |-> NoMeta]

\* urlretrieve / ZipFile.extractall / the folder listing of clone_repo
ArchiveOutcomes == {"ok", "fetch_failed", "bad_zip", "no_folder"}

\* urllib.parse.unquote: the URLs of the model hold no percent escapes
Unquote(u) == u

\* "github.com" in repo_url
IsGithub(u) == u = GithubUrl

\* os.path.exists(os.path.join(repo_dir, entrypoint)): the repositories of the
\* model hold main.py
EntrypointExists(e) == e = "main.py"

\* the in-band name left unused
ColdNameStored(c, body) == ParamsOf(c).name

\* lines 101-104: the name a cold start uses
ColdName(c, body) ==
  LET inband == InbandName(body)
  IN IF inband = None \/ inband = "" THEN ParamsOf(c).name ELSE inband

\* lines 110-117
MetadataFor(qp, fo) ==
  IF DirectOverride(qp)
    THEN [url |-> Unquote(qp.repo_url),
          entrypoint |-> Get(qp, "entrypoint", "main.py"),
          lang |-> Get(qp, "lang", "python")]
    ELSE fo.meta

\* lines 101-103: no name in the message and no parameters of the connection
NoColdName(c, body) ==
  LET inband == InbandName(body)
  IN (inband = None \/ inband = "") /\ ParamsOf(c) = EmptyParams

\* how far provisioning and spawning get: the first step that raises, in the
\* order of lines 98-122 of src/aws/lambda.py and of lines 23-53, 185-208 of
\* src/lambda.py, which is the same
StageOf(noName, qp, fo, ao) ==
  LET md == MetadataFor(qp, fo)
  IN IF noName THEN "NoName"
     ELSE IF ~DirectOverride(qp) /\ fo.ekind # None THEN fo.ekind
     ELSE IF ~IsGithub(md.url) THEN "UnsupportedSource"
     ELSE IF ao # "ok" THEN "ProvisionError"
     ELSE IF Lower(md.lang) # "python" THEN "UnsupportedLanguage"
     ELSE IF ~EntrypointExists(md.entrypoint) THEN "EntrypointMissing"
     ELSE "spawned"

\* the answers of the outside world that a cold start gets to see
FetchChoices(noName, qp) ==
  IF noName \/ DirectOverride(qp) THEN {NoFetch} ELSE FetchOutcomes

ArchiveChoices(qp, fo) ==
  IF IsGithub(MetadataFor(qp, fo).url) THEN ArchiveOutcomes ELSE {"ok"}

ReqChoices(qp, fo, ao) ==
  IF IsGithub(MetadataFor(qp, fo).url) /\ ao = "ok" THEN BOOLEAN ELSE {FALSE}

\* every failure of provisioning and spawning wrapped into a plain Exception
ColdErrTypeWrapped(stage, fo) ==
  IF stage \in {"NotFound", "StoreError"} THEN fo.etype ELSE "Exception"

\* type(e).__name__ of what each failing step raises
ColdErrType(stage, fo) ==
  CASE stage = "NoName" -> "ValueError"
    [] stage \in {"NotFound", "StoreError"} -> fo.etype
    [] stage \in {"UnsupportedSource", "ProvisionError"} -> "Exception"
    [] stage = "UnsupportedLanguage" -> "ValueError"
    [] stage = "EntrypointMissing" -> "FileNotFoundError"

\* clone_repo returned a workspace
Cloned(stage) == stage \in {"UnsupportedLanguage", "EntrypointMissing", "spawned"}

\* clone_repo: mkdtemp makes the directory; every failure removes it again
CloneDirs(ds, d, stage) ==
  IF stage \in {"NoName", "NotFound", "StoreError"} THEN ds
  ELSE IF stage \in {"UnsupportedSource", "ProvisionError"}
    THEN RemoveTree(ds \cup {d}, d)
    ELSE ds \cup {d}

\* a mkdtemp that hands out the name of the directory made before
mkdtempReused == IF nextId > 1 THEN nextId - 1 ELSE nextId

\* tempfile.mkdtemp: a directory that was not there before; nextId counts the
\* workspaces made so far.  The child spawned in workspace d is child d
mkdtemp == nextId

\* lines 96-123 of handle_message
ColdStart(c, body, rec) ==
  \E fo \in FetchChoices(NoColdName(c, body), ParamsOf(c)) :
  \E ao \in ArchiveChoices(ParamsOf(c), fo) :
  \E hasReq \in ReqChoices(ParamsOf(c), fo, ao) :
    LET stage == StageOf(NoColdName(c, body), ParamsOf(c), fo, ao)
        d == mkdtemp
        cloned == Cloned(stage)
    IN /\ dirs' = CloneDirs(dirs, d, stage)
       /\ repo_dir' = IF Cloned(stage) THEN d ELSE repo_dir
       /\ nextId' = IF Cloned(stage) THEN d + 1 ELSE nextId
       /\ wsinfo' = IF cloned
                      THEN [wsinfo EXCEPT ![d] = [name |-> ColdName(c, body)]]
                      ELSE wsinfo
       /\ IF stage = "spawned"
            THEN /\ mcp_process' = d
                 /\ procs' = [Released(procs, mcp_process) EXCEPT
                                ![d] = [NoProc EXCEPT !.st = "running", !.owner = c]]
                 /\ inv' = [rec EXCEPT !.cold = TRUE, !.pid = d, !.ws = d, !.pip = hasReq]
                 /\ pc' = "hs_init"
            ELSE /\ Raise([rec EXCEPT !.ws = IF cloned THEN d ELSE 0,
                                      !.pip = cloned /\ hasReq],
                          ColdErrType(stage, fo), stage)
                 /\ UNCHANGED <<mcp_process, procs>>
       /\ UNCHANGED connection_params

\* ------------------------------------------------------------- message
\* handle_message up to its first pipe write
handle_message(c, body) ==
  /\ pc = "idle"
  /\ NeedColdStart => nextId <= MaxStarts
  /\ ~NeedColdStart => UserWrites(mcp_process) < MaxUser
  /\ LET rec == [NoInv EXCEPT !.op = "message", !.conn = c, !.body = body]
     IN IF RewriteRaises(body)
          THEN /\ Raise(rec, "TypeError", "BadBody")
               /\ UNCHANGED <<mcp_process, repo_dir, connection_params, procs, dirs,
                              wsinfo, nextId>>
          ELSE IF NeedColdStart
            THEN ColdStart(c, body, rec)
            ELSE /\ inv' = [rec EXCEPT !.pid = mcp_process]
                 /\ pc' = "send"
                 /\ UNCHANGED <<mcp_process, repo_dir, connection_params, procs, dirs,
                                wsinfo, nextId>>

\* one stdin.write + flush of handle_message: op is logged, then the handler
\* goes on at `next`; a broken pipe raises
PipeWrite(at, op, line, next) ==
  /\ pc = at
  /\ IF CanWrite(mcp_process)
       THEN /\ procs' = Written(procs, mcp_process, op)
            /\ inv' = [inv EXCEPT !.fwd = line]
            /\ pc' = next
       ELSE /\ Raise(inv, "BrokenPipeError", "BrokenPipe")
            /\ UNCHANGED procs
  /\ UNCHANGED <<mcp_process, repo_dir, connection_params, dirs, wsinfo, nextId>>

\* lines 136-137
WriteInit == PipeWrite("hs_init", "w_init", InitLine, "hs_read")

\* lines 139-141: one line is read, decoded and printed; a line that is not
\* UTF-8 raises at line 140, after the read, and the child stays as it is
ReadInit ==
  /\ pc = "hs_read"
  /\ CanRead(mcp_process)
  /\ procs' = AfterRead(procs, mcp_process)
  /\ IF DecodeRaises(ReadLine(mcp_process))
       THEN Raise(inv, "UnicodeDecodeError", "Decode")
       ELSE /\ inv' = [inv EXCEPT !.hseof = ReadLine(mcp_process) = EOF]
            /\ pc' = "hs_notif"
  /\ UNCHANGED <<mcp_process, repo_dir, connection_params, dirs, wsinfo, nextId>>

\* lines 143-145
WriteNotif == PipeWrite("hs_notif", "w_notif", NotifLine, "send")

\* a relay that returns after the write and reads no response
WriteBodyNoWait == PipeWrite("send", "w_user", Rewrite(inv.body), "idle")

\* lines 148-149
WriteBody == PipeWrite("send", "w_user", Rewrite(inv.body), "recv")

\* lines 151-163: read one line, decode and strip it, post it to the
\* connection; a line that is not UTF-8 raises at line 152 and nothing is posted
\* but the error envelope
ReadResponse ==
  /\ pc = "recv"
  /\ CanRead(mcp_process)
  /\ procs' = AfterRead(procs, mcp_process)
  /\ LET line == ReadLine(mcp_process)
         rec == [inv EXCEPT !.eof = line = EOF]
     IN IF DecodeRaises(line)
          THEN Raise(rec, "UnicodeDecodeError", "Decode")
          ELSE \E ok \in BOOLEAN :
            LET posted == [rec EXCEPT !.posts = Append(@, [kind |-> "line",
                                                          data |-> Strip(line),
                                                          ok |-> ok])]
            IN IF ok
                 THEN /\ inv' = Returned(posted, 200)
                      /\ pc' = "idle"
                 ELSE Raise(posted, "ClientError", "Transport")
  /\ UNCHANGED <<mcp_process, repo_dir, connection_params, dirs, wsinfo, nextId>>

\* ------------------------------------------------------------- dispatch
Routes == {"$connect", "$disconnect", "$default", "$other"}

\* lines 23-34 of src/aws/lambda.py
aws_lambda_handler(route, c, qp, body) ==
  CASE route = "$connect" -> handle_connect(c, qp)
    [] route = "$disconnect" -> handle_disconnect(c)
    [] route = "$default" -> handle_message(c, body)
    [] OTHER ->
         /\ pc = "idle"
         /\ inv' = [NoInv EXCEPT !.op = "unknown", !.conn = c, !.status = 400]
         /\ UNCHANGED <<mcp_process, repo_dir, connection_params, procs, dirs,
                        wsinfo, nextId, pc>>

\* ------------------------------------------------------------- the child
\* a running child writes a line to its stdout
ChildWrite(p, l) ==
  /\ procs[p].st = "running"
  /\ ~procs[p].cout
  /\ Len(procs[p].out) < MaxOut
  /\ procs' = [procs EXCEPT ![p].out = Append(@, l)]
  /\ UNCHANGED <<mcp_process, repo_dir, connection_params, dirs, wsinfo, nextId, pc, inv>>

\* a running child closes its stdout, or an exiting child's stdout is closed
\* while poll() still returns None
ChildCloseOut(p) ==
  /\ procs[p].st = "running"
  /\ ~procs[p].cout
  /\ procs' = [procs EXCEPT ![p].cout = TRUE]
  /\ UNCHANGED <<mcp_process, repo_dir, connection_params, dirs, wsinfo, nextId, pc, inv>>

\* the same for its stdin
ChildCloseIn(p) ==
  /\ procs[p].st = "running"
  /\ ~procs[p].cin
  /\ procs' = [procs EXCEPT ![p].cin = TRUE]
  /\ UNCHANGED <<mcp_process, repo_dir, connection_params, dirs, wsinfo, nextId, pc, inv>>

\* a running child exits, with exit code 0 ("exited") or another ("failed"):
\* poll() reports it, and both pipes are closed by then
ChildExit(p, st) ==
  /\ procs[p].st = "running"
  /\ procs' = [procs EXCEPT ![p].st = st, ![p].cin = TRUE, ![p].cout = TRUE]
  /\ UNCHANGED <<mcp_process, repo_dir, connection_params, dirs, wsinfo, nextId, pc, inv>>

\* what a child does by itself.  Only run_server looks at the exit code, so the
\* persistent variant is given the one exit state "exited", standing for any code
Child(exits) ==
  \E p \in Ids :
    \/ \E st \in exits : ChildExit(p, st)
    \/ \E l \in ChildLines : ChildWrite(p, l)
    \/ ChildCloseOut(p)
    \/ ChildCloseIn(p)

\* ------------------------------------------------------------- single-shot
\* a request path is a string, written as the sequence of its slashes and of
\* the names between them (no two names side by side): "", "/", "/srv" and
\* "/mcp/srv"
RawPaths == {<< >>, <<"/">>, <<"/", "srv">>, <<"/", "mcp", "/", "srv">>}

\* the values of the key path
Paths == {<< >>, <<"/", "srv">>}

\* the events of the single-shot variant
ShotEvents ==
  [rawPath : RawPaths, path : Paths, query : QueryParams, body : Bodies]

\* str.strip("/")
RECURSIVE LStripSlash(_)
LStripSlash(s) == IF s # << >> /\ Head(s) = "/" THEN LStripSlash(Tail(s)) ELSE s

RECURSIVE RStripSlash(_)
RStripSlash(s) ==
  IF s # << >> /\ s[Len(s)] = "/" THEN RStripSlash(SubSeq(s, 1, Len(s) - 1)) ELSE s

StripSlash(s) == RStripSlash(LStripSlash(s))

\* str.split("/"): the parts between the slashes; "" has the one part ""
RECURSIVE SplitSlash(_)
SplitSlash(s) ==
  IF s = << >> THEN <<"">>
  ELSE IF Head(s) = "/" THEN <<"">> \o SplitSlash(Tail(s))
  ELSE <<Head(s)>> \o Tail(SplitSlash(Tail(s)))

\* lines 75-88 of src/lambda.py: rawPath, or path when rawPath is the empty
\* string; the last part of it once the slashes at its ends are stripped; ""
\* stands for the ValueError of line 86
extract_name(event) ==
  LET raw_path == IF event.rawPath = << >> THEN event.path ELSE event.rawPath
      path_parts == SplitSlash(StripSlash(raw_path))
  IN IF path_parts # << >> THEN path_parts[Len(path_parts)] ELSE ""

\* lines 65-72 of src/lambda.py: every exception becomes a 500 response whose
\* body is the error envelope
ShotRaise(rec, etype, ekind) ==
  /\ inv' = [Returned(rec, 500) EXCEPT
               !.etype = etype, !.ekind = ekind,
               !.posts = <<[kind |-> "error", data |-> <<etype>>, ok |-> TRUE]>>]
  /\ pc' = "idle"

\* what communicate() returns as stdout: everything the child wrote
RECURSIVE Concat(_)
Concat(lines) == IF lines = << >> THEN << >> ELSE Head(lines) \o Concat(Tail(lines))

\* lambda_handler of src/lambda.py up to Popen and the start of communicate,
\* which writes the request body to the child's stdin
lambda_handler(event) ==
  /\ pc = "idle"
  /\ nextId <= MaxStarts
  /\ LET name == extract_name(event)
         qp == event.query
         rec == [NoInv EXCEPT !.op = "call", !.body = event.body,
                              !.named = name # "", !.direct = DirectOverride(qp)]
     IN \E fo \in FetchChoices(name = "", qp) :
        \E ao \in ArchiveChoices(qp, fo) :
        \E hasReq \in ReqChoices(qp, fo, ao) :
          LET stage == StageOf(name = "", qp, fo, ao)
              d == mkdtemp
          IN /\ dirs' = CloneDirs(dirs, d, stage)
             /\ nextId' = IF Cloned(stage) THEN d + 1 ELSE nextId
             /\ wsinfo' = IF Cloned(stage)
                            THEN [wsinfo EXCEPT ![d] = [name |-> name]]
                            ELSE wsinfo
             /\ IF stage = "spawned"
                  THEN /\ procs' = [procs EXCEPT
                                      ![d] = [NoProc EXCEPT !.st = "running",
                                                            !.io = <<"w_user">>]]
                       /\ inv' = [rec EXCEPT !.cold = TRUE, !.pid = d, !.ws = d,
                                             !.pip = hasReq, !.fwd = event.body]
                       /\ pc' = "communicate"
                  ELSE /\ ShotRaise([rec EXCEPT !.ws = IF Cloned(stage) THEN d ELSE 0,
                                                !.pip = Cloned(stage) /\ hasReq],
                                    ColdErrType(stage, fo), stage)
                       /\ UNCHANGED procs
  /\ UNCHANGED <<mcp_process, repo_dir, connection_params>>

\* what communicate returns as the child's stderr: nothing, text, or bytes
\* that are not UTF-8
Stderrs == {<< >>, <<"x", "\n">>, <<"0xff">>}

\* lines 210-221 and 225-226 of run_server: the child has exited, communicate
\* returns its stdout and stderr.  Another exit code than 0 is an error, whose
\* message decodes stderr (line 213); exit code 0 gives the decoded stdout as
\* the response (line 216) once stderr, if there is any, was decoded and
\* printed (lines 218-219).  Each decode raises on bytes that are not UTF-8,
\* and line 226 wraps whatever was raised in an Exception
ShotReturn ==
  /\ pc = "communicate"
  /\ procs[inv.pid].st # "running"
  /\ procs' = Released(procs, inv.pid)
  /\ \E stderr \in Stderrs :
       LET stdout == Concat(procs[inv.pid].out)
       IN IF procs[inv.pid].st # "exited"
            THEN IF DecodeRaises(stderr)
                   THEN ShotRaise(inv, "Exception", "Decode")
                   ELSE ShotRaise(inv, "Exception", "ProcessExited")
            ELSE IF DecodeRaises(stdout) \/ DecodeRaises(stderr)
              THEN ShotRaise(inv, "Exception", "Decode")
              ELSE /\ inv' = [Returned(inv, 200) EXCEPT
                               !.posts = <<[kind |-> "line", data |-> stdout,
                                            ok |-> TRUE]>>]
                   /\ pc' = "idle"
  /\ UNCHANGED <<mcp_process, repo_dir, connection_params, dirs, wsinfo, nextId>>

\* lines 210 and 222 of run_server: communicate raises TimeoutExpired while
\* the child runs
ShotTimeout ==
  /\ pc = "communicate"
  /\ procs[inv.pid].st = "running"
  /\ pc' = "timeout"
  /\ UNCHANGED <<mcp_process, repo_dir, connection_params, procs, dirs, wsinfo, nextId,
                 inv>>

\* lines 223-224 of run_server: process.kill(), which does nothing to a child
\* that has exited by itself since the timeout, and the timeout error
ShotKill ==
  /\ pc = "timeout"
  /\ procs' = Released(Kill(procs, inv.pid), inv.pid)
  /\ ShotRaise([inv EXCEPT !.killed = inv.pid], "Exception", "Timeout")
  /\ UNCHANGED <<mcp_process, repo_dir, connection_params, dirs, wsinfo, nextId>>

Call == \E event \in ShotEvents : lambda_handler(event)

NextShot ==
  \/ Call
  \/ ShotReturn
  \/ ShotTimeout
  \/ ShotKill
  \/ Child({"exited", "failed"})

\* the single-shot variant
SpecShot == Init /\ [][NextShot]_vars

\* ------------------------------------------------------------- persistent
Connect(conns, queries) ==
  \E c \in conns, qp \in queries : aws_lambda_handler("$connect", c, qp, NoBody)

Disconnect(conns) ==
  \E c \in conns : aws_lambda_handler("$disconnect", c, EmptyParams, NoBody)

Message(conns, bodies) ==
  \E c \in conns, b \in bodies : aws_lambda_handler("$default", c, EmptyParams, b)

UnknownRoute(conns) ==
  \E c \in conns : aws_lambda_handler("$other", c, EmptyParams, NoBody)

\* the pieces of handle_message that do not wait once they can be taken: a
\* readline that has a line or the end of the output to return, and the writes
\* of the two handshake lines, which are short and go into a pipe that holds
\* nothing else.  The write of the body (lines 148-149) is not among them: it
\* waits for as long as the pipe is full and the child does not read
Prompt == WriteInit \/ ReadInit \/ WriteNotif \/ ReadResponse

NextOn(conns, queries, bodies) ==
  \/ Connect(conns, queries)
  \/ Disconnect(conns)
  \/ Message(conns, bodies)
  \/ UnknownRoute(conns)
  \/ WriteInit
  \/ ReadInit
  \/ WriteNotif
  \/ WriteBody
  \/ ReadResponse
  \/ Child({"exited"})

Next == NextOn(ConnIds, CoreQueries, CoreBodies)

\* two connections, the core queries and bodies
Spec == Init /\ [][Next]_vars

\* one connection, the core queries, every kind of body
NextBodies == NextOn({"A"}, CoreQueries, RelayBodies)

SpecBodies == Init /\ [][NextBodies]_vars

\* the persistent variant, where a handler takes the steps that do not wait
FairSpec == Spec /\ WF_vars(Prompt)

\* ------------------------------------------------------------- properties
Running(p) == procs[p].st = "running"

PostKinds(rec) == {rec.posts[i].kind : i \in 1..Len(rec.posts)}

\* a record of pipe operations that begins initialize, read, initialized, has
\* neither write a second time, and has user messages only after the three
HandshakeOrder(io) ==
  \A i \in 1..Len(io) :
    /\ io[i] = "w_init" <=> i = 1
    /\ i = 2 => io[i] = "r"
    /\ io[i] = "w_notif" <=> i = 3
    /\ io[i] = "w_user" => i > 3

\* C1: on the pipes of every child the bridge writes initialize first, reads
\* once second, writes notifications/initialized third, each of them once, and
\* writes a user message only after these three; whatever events and failed
\* handlings came before.
C1_HandshakeBeforeUser == \A p \in Ids : HandshakeOrder(procs[p].io)

\* C2: once a session is torn down (a disconnect, a failed message handling, a
\* single-shot call that has returned) no workspace directory is left on disk.
C2_WorkspaceGoneAfterTeardown ==
  /\ inv.op = "call" /\ inv.status # 0 => dirs = {}
  /\ inv.op = "disconnect" => dirs = {}
  /\ inv.op = "message" /\ inv.status = 500 => dirs = {}

\* C3: after a disconnect of K no child of K runs, no workspace is on disk and
\* _connection_params holds no entry for K.
C3_DisconnectRemovesAll ==
  inv.op = "disconnect" =>
    /\ \A p \in Ids : ~(Running(p) /\ procs[p].owner = inv.conn)
    /\ repo_dir = 0
    /\ inv.conn \notin DOMAIN connection_params

\* C4: a failed message handling has tried to send the error envelope and has
\* left no running child that the next message would be relayed to.
C4_FailureTearsDown ==
  inv.op = "message" /\ inv.status = 500 =>
    /\ "error" \in PostKinds(inv)
    /\ mcp_process = 0 \/ ~Running(mcp_process)

\* C5: when run_server has reported a timeout, the child it spawned does not run.
C5_TimeoutKills ==
  inv.op = "call" /\ inv.ekind = "Timeout" => inv.pid # 0 /\ ~Running(inv.pid)

\* a call has returned the timeout error
C5_Witness == inv.op = "call" /\ inv.ekind = "Timeout" /\ inv.status = 500

\* C6: a message of connection B is written only to a child that a message of
\* B spawned, and a disconnect of A kills only a child that A's message spawned.
C6_OneOwner ==
  /\ pc = "recv" => procs[mcp_process].owner = inv.conn
  /\ inv.op = "disconnect" /\ inv.killed # 0 /\ procs[inv.killed].st = "killed" =>
       procs[inv.killed].owner = inv.conn

\* C7: at most one child runs for a session key, and after a disconnect of K
\* no child of K runs.
C7_OneLiveProcessPerKey ==
  /\ \A k \in ConnIds :
       Cardinality({p \in Ids : Running(p) /\ procs[p].owner = k}) <= 1
  /\ inv.op = "disconnect" =>
       \A p \in Ids : ~(Running(p) /\ procs[p].owner = inv.conn)

\* a second cold start for the same key, begun when the first child was gone
C7_Witness ==
  /\ mcp_process = 2
  /\ Running(2)
  /\ procs[1].st = "exited"
  /\ procs[1].owner = procs[2].owner

\* the forwarded line has params = {} where the body has method and id and no
\* params, and the body's own params otherwise
ParamsAsClaimed(body, fwd) ==
  body.kind = "obj" =>
    /\ fwd.kind = "obj"
    /\ IF {"method", "id"} \subseteq DOMAIN body.obj /\ "params" \notin DOMAIN body.obj
         THEN "params" \in DOMAIN fwd.obj /\ fwd.obj["params"] = EmptyObj
         ELSE /\ "params" \in DOMAIN fwd.obj <=> "params" \in DOMAIN body.obj
              /\ "params" \in DOMAIN body.obj => fwd.obj["params"] = body.obj["params"]

\* C8: the line written to the child for a message with method and id and no
\* params has params = {}; for every other message its params are as received;
\* in the persistent and in the single-shot variant.
C8_EmptyParamsAdded ==
  pc \in {"recv", "communicate"} => ParamsAsClaimed(inv.body, inv.fwd)

\* C9: every message handling that has begun ends, with a response line or an
\* error envelope sent.
C9_HandlingEnds ==
  (inv.op = "message" /\ inv.status = 0) ~>
    (inv.op = "message" /\ inv.status # 0 /\ PostKinds(inv) # {})

\* C10: a read that meets the end of the child's output fails the handling:
\* after such a handshake read nothing more is written to the child, and after
\* such a relay read no response line is sent to the transport.
C10_EofIsFailure ==
  /\ inv.hseof => Len(procs[inv.pid].io) <= 2 /\ inv.status \in {0, 500}
  /\ inv.eof => "line" \notin PostKinds(inv) /\ inv.status \in {0, 500}

\* C11: a disconnect handled when the tracked child has exited already, or when
\* an earlier disconnect has left no child at all, returns 200 without an
\* error and leaves no tracked process and no tracked workspace; the child it
\* met does not run and the workspace it met is off the disk.
C11_DisconnectIdempotent ==
  inv.op = "disconnect" /\ (inv.killed = 0 \/ procs[inv.killed].st # "killed") =>
    /\ inv.status = 200
    /\ inv.etype = None
    /\ mcp_process = 0
    /\ repo_dir = 0
    /\ inv.killed # 0 => ~Running(inv.killed)
    /\ inv.rmdir # 0 => inv.rmdir \notin dirs

\* a disconnect has met a child that had exited by itself, and its workspace
C11_Witness ==
  /\ inv.op = "disconnect"
  /\ inv.killed # 0
  /\ procs[inv.killed].st = "exited"
  /\ inv.rmdir # 0
  /\ inv.status = 200

\* C12: a message handled when a disconnect has left no tracked child is never
\* relayed: it fails, or it goes through a cold start that spawns a child and
\* makes a workspace that did not exist before and begins the handshake; no
\* message line is written to a child that was killed, and the message that
\* went through the cold start is written only after initialize, the read and
\* notifications/initialized on the new child's pipes.
C12_ColdStartAfterDisconnect ==
  [][/\ (pc = "idle" /\ mcp_process = 0 /\ inv'.op = "message" /\ inv' # inv) =>
          /\ pc' \in {"idle", "hs_init"}
          /\ pc' = "idle" => inv'.status = 500 /\ mcp_process' = 0
          /\ pc' = "hs_init" =>
               /\ inv'.cold
               /\ inv'.pid >= nextId /\ inv'.ws >= nextId
               /\ procs[inv'.pid] = NoProc
               /\ procs'[inv'.pid].st = "running" /\ procs'[inv'.pid].io = << >>
               /\ mcp_process' = inv'.pid
               /\ inv'.ws \notin dirs /\ inv'.ws \in dirs'
               /\ repo_dir' = inv'.ws
     /\ (pc = "send" /\ pc' = "recv") => procs[mcp_process].st # "killed"
     /\ (pc = "send" /\ inv.cold /\ pc' = "recv") =>
          /\ inv.pid = mcp_process
          /\ procs[mcp_process].io = <<"w_init", "r", "w_notif">>
    ]_vars

\* connection A's child 1 was killed by a disconnect and its workspace removed;
\* a later message of A has been written to child 2 in workspace 2
C12_Witness ==
  /\ procs[1].st = "killed" /\ procs[1].owner = "A"
  /\ 1 \notin dirs
  /\ pc = "recv" /\ inv.conn = "A" /\ inv.cold
  /\ mcp_process = 2 /\ repo_dir = 2 /\ inv.pid = 2 /\ inv.ws = 2

\* C13: a cold start or a call that ended with the unsupported-language error
\* has made no workspace and has run no dependency installation.
C13_LanguageBeforeProvisioning ==
  inv.ekind = "UnsupportedLanguage" =>
    /\ inv.ws = 0
    /\ ~inv.pip

\* C14: a message handling or a call that ended with the entrypoint-missing
\* error has raised FileNotFoundError, returned 500 and launched no child in
\* the workspace it made; no running child is tracked, so that the test of
\* line 95 sends the next message into a cold start.
C14_EntrypointMissingNoChild ==
  inv.ekind = "EntrypointMissing" =>
    /\ inv.etype = "FileNotFoundError"
    /\ inv.status = 500
    /\ inv.pid = 0 /\ ~inv.cold
    /\ inv.ws # 0 /\ procs[inv.ws] = NoProc
    /\ \A p \in Ids : ~Running(p)
    /\ NeedColdStart

\* a first message of a connection has failed on the missing entrypoint
C14_Witness ==
  /\ inv.op = "message"
  /\ inv.ekind = "EntrypointMissing"
  /\ mcp_process = 0
  /\ repo_dir = inv.ws /\ inv.ws \in dirs

\* C15: in the single-shot variant the child has been sent initialize and then
\* notifications/initialized before the request body is written to it.
C15_ShotHandshakeFirst ==
  inv.op = "call" /\ pc = "communicate" =>
    LET io == procs[inv.pid].io
    IN \E i, j, k \in 1..Len(io) :
         /\ i < j /\ j < k
         /\ io[i] = "w_init" /\ io[j] = "w_notif" /\ io[k] = "w_user"

\* C16 as stated: whenever the message of a cold start carries _mcp_name, that
\* value is the server name of the cold start, and the line written to the
\* child does not carry the field.
C16_InbandNameUsed ==
  /\ pc = "recv" /\ inv.body.kind = "obj" => ~HasKey(inv.fwd.obj, "_mcp_name")
  /\ pc # "idle" /\ inv.cold /\ InbandName(inv.body) # None =>
       wsinfo[inv.ws].name = InbandName(inv.body)

\* C16 amended: the line written to the child never carries _mcp_name; the
\* server name of a cold start is the value of _mcp_name when that is not
\* empty, also when the connection has a stored name, and the stored name when
\* the field is empty or not there.
C16_NonEmptyInbandNameUsed ==
  /\ pc = "recv" /\ inv.body.kind = "obj" => ~HasKey(inv.fwd.obj, "_mcp_name")
  /\ pc # "idle" /\ inv.cold =>
       wsinfo[inv.ws].name =
         IF InbandName(inv.body) \notin {None, ""}
           THEN InbandName(inv.body)
           ELSE ParamsOf(inv.conn).name

\* a message with _mcp_name on a connection that has a stored name has cold
\* started the server of the in-band name and has been forwarded
C16_Witness ==
  /\ pc = "recv" /\ inv.cold
  /\ InbandName(inv.body) = "alt"
  /\ ParamsOf(inv.conn).name = "srv"
  /\ wsinfo[inv.ws].name = "alt"
  /\ ~HasKey(inv.fwd.obj, "_mcp_name")

\* C17: a connect or a call with test_mode=true and repo_url and no name is
\* accepted (the connect is stored; the call gets past the name); one with
\* neither is rejected, with no workspace made and no child spawned.
C17_NameOnlyWithoutOverride ==
  /\ inv.op = "connect" /\ ~inv.named =>
       IF inv.direct
         THEN inv.status = 200 /\ inv.conn \in DOMAIN connection_params
         ELSE inv.status = 400
  /\ inv.op = "call" /\ inv.status # 0 /\ ~inv.named =>
       IF inv.direct
         THEN inv.ekind # "NoName"
         ELSE inv.ekind = "NoName" /\ inv.ws = 0 /\ inv.pid = 0

\* whatever part of the handshake a child has had, writes of a message and
\* reads take turns on its pipes: a message is written only right after a read
\* or after notifications/initialized, and a read follows only a write of
\* initialize or of a message
RelayOrder(io) ==
  /\ io # << >> => io[1] # "r"
  /\ \A i \in 2..Len(io) :
       /\ io[i] = "w_user" => io[i - 1] \in {"r", "w_notif"}
       /\ io[i] = "r" => io[i - 1] \in {"w_init", "w_user"}

\* C18: on every child, message writes and reads alternate, after a whole
\* handshake and after a broken one.  A message that can be written as a
\* line and meets a running child that has had its whole handshake is relayed
\* to it without any resolving, cloning, spawning or handshake; its handling
\* writes one line to that child (or fails on a pipe the child has closed) and
\* then reads once from it before it returns.
C18_HalfDuplexRelay ==
  [][/\ \A p \in Ids : RelayOrder(procs'[p].io)
     /\ (/\ pc = "idle" /\ mcp_process # 0 /\ Running(mcp_process)
         /\ Len(procs[mcp_process].io) >= 3
         /\ SubSeq(procs[mcp_process].io, 1, 3) = <<"w_init", "r", "w_notif">>
         /\ inv'.op = "message" /\ inv' # inv /\ inv'.ekind # "BadBody") =>
          /\ pc' = "send"
          /\ inv'.pid = mcp_process /\ ~inv'.cold
          /\ UNCHANGED <<mcp_process, repo_dir, dirs, wsinfo, nextId, procs>>
     /\ (pc = "send" /\ ~inv.cold /\ pc' # "send") =>
          /\ UNCHANGED <<mcp_process, repo_dir, dirs, wsinfo, nextId>>
          /\ \/ pc' = "recv" /\ procs' = Written(procs, inv.pid, "w_user")
             \/ pc' = "idle" /\ inv'.ekind = "BrokenPipe" /\ procs' = procs
     /\ (pc = "recv" /\ ~inv.cold /\ pc' # "recv") =>
          /\ UNCHANGED <<mcp_process, repo_dir, dirs, wsinfo, nextId>>
          /\ pc' = "idle"
          /\ procs'[inv.pid].io = Append(procs[inv.pid].io, "r")
    ]_vars

\* a second message has been relayed to the child that the first one started,
\* and its response sent on
C18_Witness ==
  /\ pc = "idle" /\ inv.op = "message" /\ inv.status = 200 /\ ~inv.cold
  /\ inv.pid = mcp_process
  /\ procs[inv.pid].io = <<"w_init", "r", "w_notif", "w_user", "r", "w_user", "r">>

\* C19: a message handling or a call in which clone_repo failed (a location
\* that is not on github.com, a download that failed, an archive that cannot be
\* unpacked or holds no folder) ends with clone_repo's Exception and 500; the
\* directory that mkdtemp made is gone and the disk is as before; the tracked
\* workspace and process are as before, and no child was spawned.
C19_CloneFailureLeavesNothing ==
  [][(inv'.ekind \in {"UnsupportedSource", "ProvisionError"} /\ inv' # inv) =>
       /\ inv'.etype = "Exception" /\ inv'.status = 500
       /\ inv'.ws = 0 /\ inv'.pid = 0 /\ ~inv'.cold /\ ~inv'.pip
       /\ mkdtemp \notin dirs'
       /\ dirs' = dirs
       /\ UNCHANGED <<repo_dir, mcp_process, procs, wsinfo>>
    ]_vars

\* the first message of a connection has failed in clone_repo on the archive
C19_Witness ==
  /\ inv.op = "message" /\ inv.ekind = "ProvisionError" /\ inv.status = 500
  /\ dirs = {} /\ repo_dir = 0 /\ mcp_process = 0

\* C20: in the persistent variant every workspace directory on disk is the one
\* that _repo_dir tracks.
C20_EveryWorkspaceTracked == \A d \in dirs : d = repo_dir

====
